---- MODULE Spec2Model ----
(***************************************************************************)
(* Model of api_app/script_analyzers/classes.py (and the duplicated        *)
(* helpers of utils.py): the analyzer lifecycle start(), the report        *)
(* aggregation set_report_and_cleanup / set_job_status on the shared Job   *)
(* row, and the polling loop DockerBasedAnalyzer._poll_for_result.         *)
(***************************************************************************)
EXTENDS Integers, Sequences, FiniteSets, TLC

(* ---------------------------- bounds ----------------------------------- *)
NumAnalyzers == 2      \* len(job.analyzers_to_execute)
MaxClock == 1          \* the clock takes the values 0..MaxClock
MaxFaults == 2         \* store operations that may fail in one execution
MaxExtCalls == 1       \* set_job_status calls made from outside the aggregator
MaxTries == 3          \* largest max_tries of a polling analyzer

(* ---------------------------- values ----------------------------------- *)
Analyzers == 1..NumAnalyzers
\* the caller of set_failed_analyzer, which submits a report like an analyzer
FailedAnalyzerCaller == NumAnalyzers + 1
Submitters == Analyzers \cup {FailedAnalyzerCaller}
NoOne == {}         \* the row lock is free
NoTime == <<>>      \* finished_analysis_time is null
NoJob == [none |-> TRUE]
NoReport == [none |-> TRUE]
NoStatus == "none"

analyzers_to_execute == [i \in 1..NumAnalyzers |-> i]

RunOutcomes ==
    {"ok", "AnalyzerConfigurationException", "AnalyzerRunException", "Exception"}

Range(s) == {s[i] : i \in DOMAIN s}

VARIABLES
    now,             \* the clock (time.time(), get_now())
    db,              \* the committed Job row
    lock,            \* holder of the row lock taken by the transaction
    uncommitted,     \* analysis_reports written inside the open transaction
    pc,              \* position of each analyzer in __init__ / start()
    run_input,       \* what run() of each analyzer does
    report,          \* self.report of each analyzer
    job_object,      \* job_object of set_report_and_cleanup
    status_to_set,   \* status argument of the running set_job_status call
    sjs_errors,      \* errors argument of the running set_job_status call
    sjs_job,         \* job_object of set_job_status
    ext_pc,          \* position of the outside caller of set_job_status
    ext_job,         \* job_object of the outside set_job_status call
    extCalls,        \* history: outside set_job_status calls begun
    faults,          \* history: store failures so far
    completers,      \* history: calls that saw num_analysis_reports == expected
    aborted,         \* history: calls ended by AlreadyFailedJobException
    finishedWrites,  \* history: writes of finished_analysis_time
    poll             \* state of _poll_for_result

vars == <<now, db, lock, uncommitted, pc, run_input, report, job_object,
          status_to_set, sjs_errors, sjs_job, ext_pc, ext_job, extCalls,
          faults, completers, aborted, finishedWrites, poll>>

jobVars == <<now, db, lock, uncommitted, pc, run_input, report, job_object,
             status_to_set, sjs_errors, sjs_job, ext_pc, ext_job, extCalls,
             faults, completers, aborted, finishedWrites>>

(* ------------------------- the Job store ------------------------------- *)
\* Job.object_by_job_id: the row as committed
ObjectByJobId == db

\* Job row as created by the job-creating code: non-terminal, no reports
NewJob ==
    [status |-> "running", analysis_reports |-> <<>>, errors |-> <<>>,
     finished_analysis_time |-> NoTime]

PollIdle == [pc |-> "off"]

JobInit ==
    /\ now = 0
    /\ db = NewJob
    /\ lock = NoOne
    /\ uncommitted = <<>>
    /\ pc \in [Submitters -> {"init", "off", "set_failed_analyzer"}]
    /\ \A p \in Analyzers : pc[p] = "init"
    /\ run_input = [p \in Submitters |-> "none"]
    /\ report = [p \in Submitters |-> NoReport]
    /\ job_object = [p \in Submitters |-> NoJob]
    /\ status_to_set = [p \in Submitters |-> NoStatus]
    /\ sjs_errors = [p \in Submitters |-> <<>>]
    /\ sjs_job = [p \in Submitters |-> NoJob]
    /\ ext_pc = "idle"
    /\ ext_job = NoJob
    /\ extCalls = 0
    /\ faults = 0
    /\ completers = {}
    /\ aborted = {}
    /\ finishedWrites = 0

Init == JobInit /\ pc[FailedAnalyzerCaller] = "off" /\ poll = PollIdle

(* ----------------------------- clock ----------------------------------- *)
Tick ==
    /\ now < MaxClock
    /\ now' = now + 1
    /\ UNCHANGED <<db, lock, uncommitted, pc, run_input, report, job_object,
                   status_to_set, sjs_errors, sjs_job, ext_pc, ext_job,
                   extCalls, faults, completers, aborted, finishedWrites, poll>>

(* ------------------------ analyzer lifecycle --------------------------- *)
subVars == <<db, lock, uncommitted, job_object, status_to_set, sjs_errors,
             sjs_job, completers, aborted, finishedWrites>>
extVars == <<ext_pc, ext_job, extCalls>>

\* __init__: set_config(additional_config_params) returns
Construct(p) ==
    /\ pc[p] = "init"
    /\ pc' = [pc EXCEPT ![p] = "before_run"]
    /\ UNCHANGED <<now, run_input, report, faults, poll>>
    /\ UNCHANGED subVars /\ UNCHANGED extVars

\* __init__: set_config raises; nothing in __init__ catches it
ConstructRaises(p) ==
    /\ pc[p] = "init"
    /\ pc' = [pc EXCEPT ![p] = "ctor_raised"]
    /\ UNCHANGED <<now, run_input, report, faults, poll>>
    /\ UNCHANGED subVars /\ UNCHANGED extVars

\* start(): self.before_run() returns
BeforeRun(p) ==
    /\ pc[p] = "before_run"
    /\ pc' = [pc EXCEPT ![p] = "template"]
    /\ UNCHANGED <<now, run_input, report, faults, poll>>
    /\ UNCHANGED subVars /\ UNCHANGED extVars

\* start(): self.before_run() raises, outside the try block
BeforeRunRaises(p) ==
    /\ pc[p] = "before_run"
    /\ pc' = [pc EXCEPT ![p] = "start_raised"]
    /\ UNCHANGED <<now, run_input, report, faults, poll>>
    /\ UNCHANGED subVars /\ UNCHANGED extVars

get_basic_report_template(analyzer_name) ==
    [name |-> analyzer_name, success |-> FALSE, report |-> "empty",
     errors |-> <<>>, process_time |-> 0, started_time |-> now]

CreateReport(p) ==
    /\ pc[p] = "template"
    /\ report' = [report EXCEPT ![p] = get_basic_report_template(p)]
    /\ pc' = [pc EXCEPT ![p] = "run"]
    /\ UNCHANGED <<now, run_input, faults, poll>>
    /\ UNCHANGED subVars /\ UNCHANGED extVars

\* the message appended by _handle_analyzer_exception
AnalyzerErrorMessage(err) ==
    IF err = "AnalyzerRunException"
    THEN "Analyzer error: AnalyzerRunException"
    ELSE "Analyzer error: AnalyzerConfigurationException"

_handle_analyzer_exception(r, err) ==
    [r EXCEPT !.errors = Append(@, AnalyzerErrorMessage(err)),
              !.success = FALSE]

_handle_base_exception_NoMessage(r, err) == [r EXCEPT !.success = FALSE]

_handle_base_exception(r, err) ==
    [r EXCEPT !.errors = Append(@, err), !.success = FALSE]

\* start(): result = self.run() with its except / else clauses
RunResult(r, outcome) ==
    IF outcome \in {"AnalyzerConfigurationException", "AnalyzerRunException"}
    THEN _handle_analyzer_exception(r, outcome)
    ELSE IF outcome # "ok"
         THEN _handle_base_exception(r, outcome)
         ELSE [r EXCEPT !.report = "result", !.success = TRUE]

\* the outcomes of run() tried when several analyzers run together
SomeRunOutcomes == {"ok", "AnalyzerRunException"}

RunFrom(p, outcomes) ==
    /\ pc[p] = "run"
    /\ \E outcome \in outcomes :
          /\ run_input' = [run_input EXCEPT ![p] = outcome]
          /\ report' = [report EXCEPT ![p] = RunResult(@, outcome)]
    /\ pc' = [pc EXCEPT ![p] = "finalize"]
    /\ UNCHANGED <<now, faults, poll>>
    /\ UNCHANGED subVars /\ UNCHANGED extVars

Run(p) == RunFrom(p, SomeRunOutcomes)

RunAlone(p) == RunFrom(p, RunOutcomes)

\* start(): process_time, then the call of set_report_and_cleanup
SetProcessTime(r) == [r EXCEPT !.process_time = now - r.started_time]

Finalize(p) ==
    /\ pc[p] = "finalize"
    /\ report' = [report EXCEPT ![p] = SetProcessTime(@)]
    /\ pc' = [pc EXCEPT ![p] = "tx_load"]
    /\ UNCHANGED <<now, run_input, faults, poll>>
    /\ UNCHANGED subVars /\ UNCHANGED extVars

AfterRun(p) ==
    /\ pc[p] = "after_run"
    /\ pc' = [pc EXCEPT ![p] = "returned"]
    /\ UNCHANGED <<now, run_input, report, faults, poll>>
    /\ UNCHANGED subVars /\ UNCHANGED extVars

(* ------------------- set_job_status (both copies) ---------------------- *)
\* set_job_status: errors.extend(errors); status = status; the row to save()
SetJobStatusRow(job, status, errors) ==
    [job EXCEPT !.errors = @ \o errors, !.status = status]

(* ---------------------- set_report_and_cleanup ------------------------- *)
\* where set_report_and_cleanup returns to: start() or set_failed_analyzer
ReturnPc(p) == IF p \in Analyzers THEN "after_run" ELSE "sfa_returned"

lifeVars == <<now, run_input, report, poll>>

\* object_by_job_id(job_id, transaction=True): the row is read under a lock
\* that the transaction holds until it ends; a second reader of this kind,
\* and every writer of the row, waits for it
SelectForUpdate(p) == lock = NoOne /\ lock' = {p}

\* with transaction.atomic(): object_by_job_id(job_id, transaction=True)
TxLoad(p) ==
    /\ pc[p] = "tx_load"
    /\ SelectForUpdate(p)
    /\ job_object' = [job_object EXCEPT ![p] = ObjectByJobId]
    /\ pc' = [pc EXCEPT ![p] = "tx_append"]
    /\ UNCHANGED <<db, uncommitted, status_to_set, sjs_errors, sjs_job,
                   completers, aborted, finishedWrites, faults>>
    /\ UNCHANGED lifeVars /\ UNCHANGED extVars

\* analysis_reports.append(report); save(update_fields=["analysis_reports"])
TxAppend(p) ==
    /\ pc[p] = "tx_append"
    /\ job_object' = [job_object EXCEPT
                         ![p].analysis_reports = Append(@, report[p])]
    /\ uncommitted' = job_object'[p].analysis_reports
    /\ pc' = [pc EXCEPT ![p] = "tx_check"]
    /\ UNCHANGED <<db, lock, status_to_set, sjs_errors, sjs_job,
                   completers, aborted, finishedWrites, faults>>
    /\ UNCHANGED lifeVars /\ UNCHANGED extVars

\* if job_object.status == "failed": raise AlreadyFailedJobException()
AlreadyFailed(job) == job.status = "failed"

\* variant: the failed check is made after the block has committed
TxExit_CommitFirst(row, pending, raised) ==
    [row EXCEPT !.analysis_reports = pending]

\* leaving the atomic block: rollback when it raised, commit otherwise
TxExit(row, pending, raised) ==
    IF raised THEN row ELSE [row EXCEPT !.analysis_reports = pending]

TxCheck(p) ==
    /\ pc[p] = "tx_check"
    /\ db' = TxExit(db, uncommitted, AlreadyFailed(job_object[p]))
    /\ uncommitted' = <<>>
    /\ lock' = NoOne
    /\ pc' = [pc EXCEPT ![p] = IF AlreadyFailed(job_object[p])
                                THEN ReturnPc(p) ELSE "count"]
    /\ job_object' = [job_object EXCEPT ![p] =
                         IF AlreadyFailed(@) THEN NoJob ELSE @]
    /\ aborted' = IF AlreadyFailed(job_object[p])
                  THEN aborted \cup {p} ELSE aborted
    /\ UNCHANGED <<status_to_set, sjs_errors, sjs_job,
                   completers, finishedWrites, faults>>
    /\ UNCHANGED lifeVars /\ UNCHANGED extVars

\* variant: the count is read again from the store after the commit
NumAnalysisReports_Reread(p) == Len(db.analysis_reports)

\* num_analysis_reports = len(job_object.analysis_reports)
NumAnalysisReports(p) == Len(job_object[p].analysis_reports)

NumAnalyzersToExecute == Len(analyzers_to_execute)

\* the loop counting the reports whose success is not true
RECURSIVE FailedAnalyzers(_)
FailedAnalyzers(reports) ==
    IF reports = <<>> THEN 0
    ELSE FailedAnalyzers(Tail(reports))
         + (IF Head(reports).success THEN 0 ELSE 1)

\* variant: "elif failed_analyzers > 1"
StatusToSet_MoreThanOne(reports, num_analysis_reports) ==
    IF FailedAnalyzers(reports) = num_analysis_reports THEN "failed"
    ELSE IF FailedAnalyzers(reports) > 1 THEN "reported_with_fails"
    ELSE "reported_without_fails"

StatusToSet(reports, num_analysis_reports) ==
    IF FailedAnalyzers(reports) = num_analysis_reports THEN "failed"
    ELSE IF FailedAnalyzers(reports) >= 1 THEN "reported_with_fails"
    ELSE "reported_without_fails"

Count(p) ==
    /\ pc[p] = "count"
    /\ IF NumAnalysisReports(p) = NumAnalyzersToExecute
       THEN /\ status_to_set' = [status_to_set EXCEPT ![p] =
                  StatusToSet(job_object[p].analysis_reports,
                              NumAnalysisReports(p))]
            /\ sjs_errors' = [sjs_errors EXCEPT ![p] = <<>>]
            /\ completers' = completers \cup {p}
            /\ pc' = [pc EXCEPT ![p] = "sjs_load"]
            /\ UNCHANGED job_object
       ELSE /\ pc' = [pc EXCEPT ![p] = ReturnPc(p)]
            /\ job_object' = [job_object EXCEPT ![p] = NoJob]
            /\ UNCHANGED <<status_to_set, sjs_errors, completers>>
    /\ UNCHANGED <<db, lock, uncommitted, sjs_job, aborted, finishedWrites,
                   faults>>
    /\ UNCHANGED lifeVars /\ UNCHANGED extVars

\* set_job_status: job_object = object_by_job_id(job_id)
SjsLoad(p) ==
    /\ pc[p] \in {"sjs_load", "rec_sjs_load"}
    /\ sjs_job' = [sjs_job EXCEPT ![p] = ObjectByJobId]
    /\ pc' = [pc EXCEPT ![p] = IF pc[p] = "sjs_load"
                                THEN "sjs_save" ELSE "rec_sjs_save"]
    /\ UNCHANGED <<db, lock, uncommitted, job_object, status_to_set,
                   sjs_errors, completers, aborted, finishedWrites, faults>>
    /\ UNCHANGED lifeVars /\ UNCHANGED extVars

\* set_job_status: job_object.save() writes every field of the row
SjsSave(p) ==
    /\ pc[p] \in {"sjs_save", "rec_sjs_save"}
    /\ lock = NoOne
    /\ db' = SetJobStatusRow(sjs_job[p], status_to_set[p], sjs_errors[p])
    /\ sjs_job' = [sjs_job EXCEPT ![p] = NoJob]
    /\ status_to_set' = [status_to_set EXCEPT ![p] = NoStatus]
    /\ sjs_errors' = [sjs_errors EXCEPT ![p] = <<>>]
    /\ pc' = [pc EXCEPT ![p] = IF pc[p] = "sjs_save"
                                THEN "fin_save" ELSE "rec_fin"]
    /\ UNCHANGED <<lock, uncommitted, job_object, completers, aborted,
                   finishedWrites, faults>>
    /\ UNCHANGED lifeVars /\ UNCHANGED extVars

\* variant: the finished time is assigned but the save is dropped
SaveFinishedTime_NotSaved(row, t) == row

\* finished_analysis_time = get_now(); save(update_fields=[...])
SaveFinishedTime(row, t) == [row EXCEPT !.finished_analysis_time = <<t>>]

FinSave(p) ==
    /\ pc[p] \in {"fin_save", "rec_fin"}
    /\ job_object[p] # NoJob
    /\ lock = NoOne
    /\ db' = SaveFinishedTime(db, now)
    /\ job_object' = [job_object EXCEPT ![p] = NoJob]
    /\ finishedWrites' = finishedWrites + 1
    /\ pc' = [pc EXCEPT ![p] = ReturnPc(p)]
    /\ UNCHANGED <<lock, uncommitted, status_to_set, sjs_errors, sjs_job,
                   completers, aborted, faults>>
    /\ UNCHANGED lifeVars /\ UNCHANGED extVars

\* except Exception: job_object is still None, the assignment raises
RecFinNoJob(p) ==
    /\ pc[p] = "rec_fin"
    /\ job_object[p] = NoJob
    /\ pc' = [pc EXCEPT ![p] = "submit_raised"]
    /\ UNCHANGED <<faults>>
    /\ UNCHANGED subVars /\ UNCHANGED lifeVars /\ UNCHANGED extVars

StorePoints == {"tx_load", "tx_append", "sjs_load", "sjs_save", "fin_save"}
RecoveryStorePoints == {"rec_sjs_load", "rec_sjs_save", "rec_fin"}

\* a store operation of the try block raises: rollback, except Exception
StoreFails(p) ==
    /\ pc[p] \in StorePoints
    /\ faults < MaxFaults
    /\ faults' = faults + 1
    /\ lock' = IF lock = {p} THEN NoOne ELSE lock
    /\ uncommitted' = IF lock = {p} THEN <<>> ELSE uncommitted
    /\ status_to_set' = [status_to_set EXCEPT ![p] = "failed"]
    /\ sjs_errors' = [sjs_errors EXCEPT ![p] = <<"store error">>]
    /\ pc' = [pc EXCEPT ![p] = "rec_sjs_load"]
    /\ UNCHANGED <<db, job_object, sjs_job, completers, aborted, finishedWrites>>
    /\ UNCHANGED lifeVars /\ UNCHANGED extVars

\* a store operation of the except Exception block raises: nothing catches it
RecoveryStoreFails(p) ==
    /\ pc[p] \in RecoveryStorePoints
    /\ faults < MaxFaults
    /\ faults' = faults + 1
    /\ pc' = [pc EXCEPT ![p] = "submit_raised"]
    /\ job_object' = [job_object EXCEPT ![p] = NoJob]
    /\ sjs_job' = [sjs_job EXCEPT ![p] = NoJob]
    /\ status_to_set' = [status_to_set EXCEPT ![p] = NoStatus]
    /\ sjs_errors' = [sjs_errors EXCEPT ![p] = <<>>]
    /\ UNCHANGED <<db, lock, uncommitted, completers, aborted, finishedWrites>>
    /\ UNCHANGED lifeVars /\ UNCHANGED extVars

(* --------------- set_job_status called by other code ------------------- *)
ExtLoad ==
    /\ ext_pc = "idle"
    /\ extCalls < MaxExtCalls
    /\ extCalls' = extCalls + 1
    /\ ext_job' = ObjectByJobId
    /\ ext_pc' = "loaded"
    /\ UNCHANGED <<pc, faults>>
    /\ UNCHANGED subVars /\ UNCHANGED lifeVars

ExtSave ==
    /\ ext_pc = "loaded"
    /\ lock = NoOne
    /\ db' = SetJobStatusRow(ext_job, "failed", <<>>)
    /\ ext_pc' = "idle"
    /\ ext_job' = NoJob
    /\ UNCHANGED <<pc, faults, extCalls, lock, uncommitted,
                   job_object, status_to_set, sjs_errors, sjs_job,
                   completers, aborted, finishedWrites>>
    /\ UNCHANGED lifeVars

(* --------------------------- specification ----------------------------- *)
Next ==
    \/ ExtLoad
    \/ ExtSave
    \/ \E p \in Analyzers : Construct(p)
    \/ \E p \in Analyzers : ConstructRaises(p)
    \/ \E p \in Analyzers : BeforeRun(p)
    \/ \E p \in Analyzers : BeforeRunRaises(p)
    \/ \E p \in Analyzers : CreateReport(p)
    \/ \E p \in Analyzers : Run(p)
    \/ \E p \in Analyzers : Finalize(p)
    \/ \E p \in Analyzers : TxLoad(p)
    \/ \E p \in Analyzers : TxAppend(p)
    \/ \E p \in Analyzers : TxCheck(p)
    \/ \E p \in Analyzers : Count(p)
    \/ \E p \in Analyzers : SjsLoad(p)
    \/ \E p \in Analyzers : SjsSave(p)
    \/ \E p \in Analyzers : FinSave(p)
    \/ \E p \in Analyzers : RecFinNoJob(p)
    \/ \E p \in Analyzers : StoreFails(p)
    \/ \E p \in Analyzers : RecoveryStoreFails(p)
    \/ \E p \in Analyzers : AfterRun(p)

Spec == Init /\ [][Next]_vars

(* ---------- one analyzer run on its own, with the clock running -------- *)
FirstAnalyzer == CHOOSE p \in Analyzers : TRUE

StartNext ==
    \/ Tick
    \/ Construct(FirstAnalyzer)
    \/ ConstructRaises(FirstAnalyzer)
    \/ BeforeRun(FirstAnalyzer)
    \/ BeforeRunRaises(FirstAnalyzer)
    \/ CreateReport(FirstAnalyzer)
    \/ RunAlone(FirstAnalyzer)
    \/ Finalize(FirstAnalyzer)
    \/ TxLoad(FirstAnalyzer)
    \/ TxAppend(FirstAnalyzer)
    \/ TxCheck(FirstAnalyzer)
    \/ Count(FirstAnalyzer)
    \/ SjsLoad(FirstAnalyzer)
    \/ SjsSave(FirstAnalyzer)
    \/ FinSave(FirstAnalyzer)
    \/ RecFinNoJob(FirstAnalyzer)
    \/ StoreFails(FirstAnalyzer)
    \/ RecoveryStoreFails(FirstAnalyzer)
    \/ AfterRun(FirstAnalyzer)

SpecStart == Init /\ [][StartNext]_vars

(* ------- the analyzers and a call of set_failed_analyzer (utils.py) ---- *)
\* report = get_basic_report_template(name); errors.append(error_message)
FailedAnalyzerReport(analyzer_name) ==
    [get_basic_report_template(analyzer_name) EXCEPT
        !.errors = Append(@, "set_failed_analyzer: error_message")]

\* set_failed_analyzer(analyzer_name, job_id, error_message) up to its call
\* of set_report_and_cleanup
SetFailedAnalyzer(p) ==
    /\ pc[p] = "set_failed_analyzer"
    /\ \E analyzer_name \in Analyzers :
          report' = [report EXCEPT ![p] = FailedAnalyzerReport(analyzer_name)]
    /\ pc' = [pc EXCEPT ![p] = "tx_load"]
    /\ UNCHANGED <<now, run_input, faults, poll>>
    /\ UNCHANGED subVars /\ UNCHANGED extVars

FailedAnalyzerInit ==
    JobInit /\ pc[FailedAnalyzerCaller] = "set_failed_analyzer"
            /\ poll = PollIdle

FailedAnalyzerNext ==
    \/ SetFailedAnalyzer(FailedAnalyzerCaller)
    \/ \E p \in Analyzers : Construct(p)
    \/ \E p \in Analyzers : ConstructRaises(p)
    \/ \E p \in Analyzers : BeforeRun(p)
    \/ \E p \in Analyzers : BeforeRunRaises(p)
    \/ \E p \in Analyzers : CreateReport(p)
    \/ \E p \in Analyzers : Run(p)
    \/ \E p \in Analyzers : Finalize(p)
    \/ \E p \in Submitters : TxLoad(p)
    \/ \E p \in Submitters : TxAppend(p)
    \/ \E p \in Submitters : TxCheck(p)
    \/ \E p \in Submitters : Count(p)
    \/ \E p \in Submitters : SjsLoad(p)
    \/ \E p \in Submitters : SjsSave(p)
    \/ \E p \in Submitters : FinSave(p)
    \/ \E p \in Analyzers : AfterRun(p)

SpecFailedAnalyzer == FailedAnalyzerInit /\ [][FailedAnalyzerNext]_vars

(* ------------------ DockerBasedAnalyzer._poll_for_result --------------- *)
TransportError == [kind |-> "RequestException"]

\* what one GET of _query_for_result can give: (status_code, data["status"])
Responses ==
    {TransportError}
    \cup [kind : {"response"}, status_code : {200},
          status : {"none", "running", "success", "reported_with_fails",
                    "failed"}]
    \cup [kind : {"response"}, status_code : {404},
          status : {"none", "success"}]

NoData == [none |-> TRUE]

\* json_data of query number k: the body, tagged with the query it answers
Payload(k, resp) == [query |-> k, status |-> resp.status]

\* variant: "failed" is left out of the list of final statuses
IsResult_NoFailed(analysis_status) ==
    analysis_status \in {"success", "reported_with_fails"}

IsResult(analysis_status) ==
    analysis_status \in {"success", "reported_with_fails", "failed"}

PollStart ==
    [pc : {"loop"}, max_tries : 1..MaxTries,
     worker : [1..MaxTries -> Responses], chance : {0},
     queries : {0}, sleeps : {0}, got_result : {FALSE},
     status_code : {0}, json_data : {NoData},
     raised : {"none"}, result : {NoData}]

PollInit == JobInit /\ pc[FailedAnalyzerCaller] = "off" /\ poll \in PollStart

\* variant: the loop makes one more round, "range(self.max_tries + 1)"
PollLoop_OneMore ==
    /\ poll.pc = "loop"
    /\ poll' = [poll EXCEPT !.pc = IF poll.chance <= poll.max_tries
                                   THEN "sleep" ELSE "end"]
    /\ UNCHANGED jobVars

\* for chance in range(self.max_tries)
PollLoop ==
    /\ poll.pc = "loop"
    /\ poll' = [poll EXCEPT !.pc = IF poll.chance < poll.max_tries
                                   THEN "sleep" ELSE "end"]
    /\ UNCHANGED jobVars

\* time.sleep(self.poll_distance)
PollSleep ==
    /\ poll.pc = "sleep"
    /\ poll' = [poll EXCEPT !.pc = "query", !.sleeps = @ + 1]
    /\ UNCHANGED jobVars

\* status_code, json_data = self._query_for_result(self.url, req_key)
PollQuery ==
    /\ poll.pc = "query"
    /\ poll.worker[poll.queries + 1] # TransportError
    /\ poll' = [poll EXCEPT
                  !.pc = "inspect",
                  !.queries = @ + 1,
                  !.status_code = poll.worker[poll.queries + 1].status_code,
                  !.json_data = Payload(poll.queries + 1,
                                        poll.worker[poll.queries + 1])]
    /\ UNCHANGED jobVars

\* variant: a transport error is taken as "not ready" and polling goes on
PollQueryFails_Retry ==
    /\ poll.pc = "query"
    /\ poll.worker[poll.queries + 1] = TransportError
    /\ poll' = [poll EXCEPT !.pc = "loop", !.queries = @ + 1,
                            !.chance = @ + 1]
    /\ UNCHANGED jobVars

\* except requests.RequestException as e: raise AnalyzerRunException(e)
PollQueryFails ==
    /\ poll.pc = "query"
    /\ poll.worker[poll.queries + 1] = TransportError
    /\ poll' = [poll EXCEPT !.pc = "raised", !.queries = @ + 1,
                            !.raised = "AnalyzerRunException: transport"]
    /\ UNCHANGED jobVars

\* variant: the 404 test comes first, so a 404 never ends the loop
PollInspect_NotFoundFirst ==
    /\ poll.pc = "inspect"
    /\ poll' = IF poll.status_code # 404 /\ IsResult(poll.json_data.status)
               THEN [poll EXCEPT !.got_result = TRUE, !.pc = "end"]
               ELSE [poll EXCEPT !.chance = @ + 1, !.pc = "loop"]
    /\ UNCHANGED jobVars

\* the if / elif / else on analysis_status and status_code
PollInspect ==
    /\ poll.pc = "inspect"
    /\ poll' = IF IsResult(poll.json_data.status)
               THEN [poll EXCEPT !.got_result = TRUE, !.pc = "end"]
               ELSE [poll EXCEPT !.chance = @ + 1, !.pc = "loop"]
    /\ UNCHANGED jobVars

\* if not got_result: raise AnalyzerRunException(...); return json_data
PollEnd ==
    /\ poll.pc = "end"
    /\ poll' = IF poll.got_result
               THEN [poll EXCEPT !.pc = "returned", !.result = poll.json_data]
               ELSE [poll EXCEPT !.pc = "raised",
                                 !.raised = "AnalyzerRunException: max polls"]
    /\ UNCHANGED jobVars

PollNext ==
    \/ PollLoop
    \/ PollSleep
    \/ PollQuery
    \/ PollQueryFails
    \/ PollInspect
    \/ PollEnd

SpecPoll == PollInit /\ [][PollNext]_vars

(* ---- an analyzer whose run() polls a worker, next to its siblings ----- *)
\* workers that give the same answer to every query
SteadyResponses ==
    {TransportError,
     [kind |-> "response", status_code |-> 200, status |-> "running"],
     [kind |-> "response", status_code |-> 404, status |-> "none"],
     [kind |-> "response", status_code |-> 200, status |-> "success"]}

SteadyPollStart ==
    {s \in PollStart :
        \E resp \in SteadyResponses : \A k \in 1..MaxTries : s.worker[k] = resp}

PollingInit ==
    JobInit /\ pc[FailedAnalyzerCaller] = "off" /\ poll \in SteadyPollStart

Siblings == Analyzers \ {FirstAnalyzer}

\* run() of the polling analyzer while it is inside _poll_for_result
RunPolls(p) == pc[p] = "run" /\ PollNext

\* variant: the error of _poll_for_result is not caught by start()
RunPolled_Escapes(p) ==
    /\ pc[p] = "run"
    /\ poll.pc \in {"raised", "returned"}
    /\ run_input' = [run_input EXCEPT ![p] =
                        IF poll.pc = "raised"
                        THEN "AnalyzerRunException" ELSE "ok"]
    /\ report' = IF poll.pc = "raised" THEN report
                 ELSE [report EXCEPT ![p] = RunResult(@, "ok")]
    /\ pc' = [pc EXCEPT ![p] = IF poll.pc = "raised"
                               THEN "start_raised" ELSE "finalize"]
    /\ UNCHANGED <<now, faults, poll>>
    /\ UNCHANGED subVars /\ UNCHANGED extVars

\* run() ends as _poll_for_result ended: its AnalyzerRunException goes to
\* the except clause of start(), its return value to report["report"]
RunPolled(p) ==
    /\ pc[p] = "run"
    /\ poll.pc \in {"raised", "returned"}
    /\ \E outcome \in {IF poll.pc = "raised"
                        THEN "AnalyzerRunException" ELSE "ok"} :
          /\ run_input' = [run_input EXCEPT ![p] = outcome]
          /\ report' = [report EXCEPT ![p] = RunResult(@, outcome)]
    /\ pc' = [pc EXCEPT ![p] = "finalize"]
    /\ UNCHANGED <<now, faults, poll>>
    /\ UNCHANGED subVars /\ UNCHANGED extVars

PollingNext ==
    \/ RunPolls(FirstAnalyzer)
    \/ RunPolled(FirstAnalyzer)
    \/ \E p \in Siblings : Run(p)
    \/ \E p \in Analyzers : Construct(p)
    \/ \E p \in Analyzers : ConstructRaises(p)
    \/ \E p \in Analyzers : BeforeRun(p)
    \/ \E p \in Analyzers : BeforeRunRaises(p)
    \/ \E p \in Analyzers : CreateReport(p)
    \/ \E p \in Analyzers : Finalize(p)
    \/ \E p \in Analyzers : TxLoad(p)
    \/ \E p \in Analyzers : TxAppend(p)
    \/ \E p \in Analyzers : TxCheck(p)
    \/ \E p \in Analyzers : Count(p)
    \/ \E p \in Analyzers : SjsLoad(p)
    \/ \E p \in Analyzers : SjsSave(p)
    \/ \E p \in Analyzers : FinSave(p)
    \/ \E p \in Analyzers : AfterRun(p)

SpecPolling == PollingInit /\ [][PollingNext]_vars

(* ============================ properties ================================ *)
\* the call of set_report_and_cleanup made by analyzer p has returned
SubmitReturned(p) == pc[p] \in {"after_run", "returned"}

AllSubmitsReturned == \A p \in Analyzers : SubmitReturned(p)

\* only the analyzers' own calls act on the job, and the store never fails
OnlySubmits == extCalls = 0 /\ faults = 0

\* C1: when the N analyzers of a job each submit once and only the steps of
\* these calls interleave, at most one call ever sees the report count equal
\* to the expected count, and when all calls have returned exactly one has
\* seen it and the persisted analysis_reports holds exactly the N submitted
\* reports, each once.
C1_ExactlyOneCompletion ==
    OnlySubmits =>
        /\ Cardinality(completers) <= 1
        /\ AllSubmitsReturned =>
              /\ Cardinality(completers) = 1
              /\ Len(db.analysis_reports) = NumAnalyzers
              /\ Range(db.analysis_reports) = {report[p] : p \in Analyzers}

C1_Witness ==
    /\ OnlySubmits
    /\ \A p \in Analyzers : pc[p] = "returned"
    /\ Cardinality(completers) = 1
    /\ Len(db.analysis_reports) = NumAnalyzers

SuccessFlags(reports) == {reports[i].success : i \in DOMAIN reports}

C3_StatusFromSuccessFlags ==
    \A p \in Analyzers :
        pc[p] = "sjs_load" =>
            status_to_set[p] =
                CASE SuccessFlags(job_object[p].analysis_reports) = {TRUE}
                        -> "reported_without_fails"
                  [] SuccessFlags(job_object[p].analysis_reports) = {FALSE}
                        -> "failed"
                  [] OTHER -> "reported_with_fails"

C3_Witness ==
    \E p \in Analyzers :
        /\ pc[p] = "sjs_load"
        /\ status_to_set[p] = "reported_with_fails"
        /\ job_object[p].analysis_reports[1].success = FALSE

\* C4: the step in which a call finds status failed inside its transaction
\* ends the call, leaves the persisted row as it was when the call loaded
\* it (status, errors, finished_analysis_time, analysis_reports) and does
\* not leave the call's report in the persisted analysis_reports.
C4_FailedSubmitChangesNothing ==
    [][\A p \in Analyzers :
          (/\ pc[p] = "tx_check"
           /\ job_object[p].status = "failed"
           /\ pc'[p] # pc[p]) =>
              /\ pc'[p] = "after_run"
              /\ db' = db
              /\ finishedWrites' = finishedWrites
              /\ report[p] \notin Range(db'.analysis_reports)
              /\ db'.status = job_object[p].status
              /\ db'.errors = job_object[p].errors
              /\ db'.finished_analysis_time =
                     job_object[p].finished_analysis_time
              /\ Append(db'.analysis_reports, report[p]) =
                     job_object[p].analysis_reports]_vars

C4_Witness ==
    \E p \in aborted :
        /\ pc[p] = "returned"
        /\ db.status = "failed"
        /\ report[p] \notin Range(db.analysis_reports)

\* C5: when run() of an analyzer raises (any kind), start() does not raise
\* and the report it submits has success false, a non-empty errors list and
\* process_time equal to the time at the assignment minus started_time.
C5_RunErrorContained ==
    [][\A p \in Analyzers :
          run_input'[p] \notin {"none", "ok"} =>
              /\ pc'[p] \notin {"start_raised", "submit_raised"}
              /\ (pc[p] = "finalize" /\ pc'[p] = "tx_load") =>
                    /\ report'[p].success = FALSE
                    /\ report'[p].errors # <<>>
                    /\ report'[p].process_time =
                           now - report[p].started_time]_vars

\* C6: a failure raised inside before_run does not escape start().
C6_BeforeRunContained == \A p \in Analyzers : pc[p] # "start_raised"

\* C7: a configuration error raised by set_config during construction does
\* not propagate to the code that constructs the analyzer.
C7_ConfigErrorContained == \A p \in Analyzers : pc[p] # "ctor_raised"

\* C8: no error raised while set_report_and_cleanup runs propagates out of
\* it, also when the job could not be loaded or the store fails again in
\* the recovery path.
C8_SubmitNeverRaises == \A p \in Analyzers : pc[p] # "submit_raised"

\* C9: once the persisted status is failed, no step of a submit call sets
\* the status to reported_without_fails or reported_with_fails, nor adds a
\* report to the persisted analysis_reports.
C9_FailedIsSticky ==
    [][(db.status = "failed" /\ ext_pc' = ext_pc) =>
          /\ db'.status \notin {"reported_without_fails",
                                "reported_with_fails"}
          /\ Range(db'.analysis_reports) \subseteq
                 Range(db.analysis_reports)]_vars

\* C10: when the first response with status success, reported_with_fails or
\* failed is the one of query k <= max_tries and the earlier queries were
\* answered with other statuses, no more than k queries are ever made and
\* _poll_for_result returns the payload of query k after exactly k queries.
FirstResultAt(k) ==
    /\ k <= poll.max_tries
    /\ \A j \in 1..k : poll.worker[j] # TransportError
    /\ poll.worker[k].status \in {"success", "reported_with_fails", "failed"}
    /\ \A j \in 1..(k - 1) :
          poll.worker[j].status \notin
              {"success", "reported_with_fails", "failed"}

C10_ReturnsFirstResult ==
    \A k \in 1..MaxTries :
        FirstResultAt(k) =>
            /\ poll.queries <= k
            /\ poll.pc # "raised"
            /\ poll.pc = "returned" =>
                  /\ poll.queries = k
                  /\ poll.result = [query |-> k,
                                    status |-> poll.worker[k].status]

C10_Witness ==
    /\ poll.pc = "returned"
    /\ poll.max_tries = 3
    /\ FirstResultAt(3)
    /\ poll.worker[3].status = "success"
    /\ poll.queries = 3
    /\ poll.result.query = 3

\* C11: when none of the first max_tries queries fails in transport or is
\* answered with status success, reported_with_fails or failed,
\* _poll_for_result never returns and raises AnalyzerRunException after
\* exactly max_tries queries; in every execution at most max_tries queries
\* are made and each query comes after one sleep of its own.
NoResultWithinTries ==
    \A j \in 1..poll.max_tries :
        /\ poll.worker[j] # TransportError
        /\ poll.worker[j].status \notin
               {"success", "reported_with_fails", "failed"}

C11_ExhaustionRaises ==
    /\ poll.queries <= poll.max_tries
    /\ poll.sleeps = poll.queries + (IF poll.pc = "query" THEN 1 ELSE 0)
    /\ NoResultWithinTries =>
          /\ poll.pc # "returned"
          /\ poll.pc = "raised" =>
                /\ poll.queries = poll.max_tries
                /\ poll.raised = "AnalyzerRunException: max polls"

C11_Witness ==
    /\ NoResultWithinTries
    /\ poll.max_tries = 2
    /\ poll.pc = "raised"
    /\ poll.queries = 2
    /\ poll.sleeps = 2

\* C12: when the query of try k fails with a transport error and the
\* earlier queries were answered without a final status, _poll_for_result
\* raises AnalyzerRunException for that error with exactly k queries made;
\* no query follows the failing one.
TransportErrorAt(k) ==
    /\ k <= poll.max_tries
    /\ poll.worker[k] = TransportError
    /\ \A j \in 1..(k - 1) :
          /\ poll.worker[j] # TransportError
          /\ poll.worker[j].status \notin
                 {"success", "reported_with_fails", "failed"}

C12_TransportErrorRaisesAtOnce ==
    \A k \in 1..MaxTries :
        TransportErrorAt(k) =>
            /\ poll.queries <= k
            /\ poll.pc # "returned"
            /\ poll.queries = k =>
                  /\ poll.pc = "raised"
                  /\ poll.raised = "AnalyzerRunException: transport"

C12_Witness ==
    /\ TransportErrorAt(1)
    /\ poll.max_tries = 3
    /\ poll.pc = "raised"
    /\ poll.queries = 1

\* C13: the persisted analysis_reports never holds more reports than
\* analyzers_to_execute has names; once it holds as many, no step appends
\* another, and the status is terminal or the call that made them equal
\* is on its way to set it.
SettingTerminalStatus(p) ==
    pc[p] \in {"count", "sjs_load", "sjs_save", "rec_sjs_load", "rec_sjs_save"}

C13_ReportsBoundedByAnalyzers ==
    [][/\ Len(db'.analysis_reports) <= Len(analyzers_to_execute)
       /\ Len(db.analysis_reports) = Len(analyzers_to_execute) =>
              Len(db'.analysis_reports) <= Len(db.analysis_reports)
       /\ Len(db'.analysis_reports) = Len(analyzers_to_execute) =>
              \/ db'.status \in {"reported_without_fails",
                                 "reported_with_fails", "failed"}
              \/ \E p \in Submitters : SettingTerminalStatus(p)']_vars

\* C14: the persisted analysis_reports is append-only: a committed report
\* is never removed or changed by a later write, whatever the interleaving
\* of submit calls and set_job_status calls.
C14_ReportsAppendOnly ==
    [][\A i \in DOMAIN db.analysis_reports :
          /\ i \in DOMAIN db'.analysis_reports
          /\ db'.analysis_reports[i] = db.analysis_reports[i]]_vars

\* C15: every call of start() hands exactly one report to the aggregator
\* and takes its steps in the order before_run, report creation, run,
\* process_time assignment, submit, after_run, return; the report returned
\* is the report that was submitted.
StartStage(at) ==
    CASE at = "before_run" -> 1
      [] at = "template"   -> 2
      [] at = "run"        -> 3
      [] at = "finalize"   -> 4
      [] at = "after_run"  -> 6
      [] at = "returned"   -> 7
      [] at \in {"start_raised", "submit_raised"} -> 7
      [] OTHER             -> 5

StartEnded(p) == pc[p] \in {"returned", "start_raised", "submit_raised"}

StartCalled(p) == pc[p] \notin {"init", "ctor_raised", "off"}

C15_OneReportHandedInOrder ==
    [][\A p \in Analyzers :
          (StartCalled(p) /\ pc'[p] # pc[p]) =>
              /\ StartStage(pc'[p]) \in {StartStage(pc[p]), StartStage(pc[p]) + 1}
              /\ StartEnded(p)' => /\ pc'[p] = "returned"
                                   /\ report'[p] = report[p]]_vars

\* C16: the report a start() submits has success = TRUE exactly when run()
\* returned normally, and then carries the value run() returned and no
\* error; when run() failed it keeps the empty template value and carries
\* exactly one error message.
Submitted(p) ==
    StartCalled(p) /\ pc[p] # "start_raised" /\ StartStage(pc[p]) >= 5

C16_OneOutcomeRecorded ==
    \A p \in Analyzers :
        Submitted(p) =>
            /\ report[p].success <=> run_input[p] = "ok"
            /\ run_input[p] = "ok" =>
                   report[p].report = "result" /\ report[p].errors = <<>>
            /\ run_input[p] # "ok" =>
                   report[p].report = "empty" /\ Len(report[p].errors) = 1

C16_Witness ==
    \E p \in Analyzers :
        /\ pc[p] = "returned"
        /\ run_input[p] = "Exception"
        /\ ~report[p].success
        /\ \E i \in DOMAIN db.analysis_reports :
              db.analysis_reports[i] = report[p]

\* C18 as stated: a query answered with status code 404 never ends the
\* loop with a result, whatever the body contains.
C18_Original ==
    [][(poll.pc = "inspect" /\ poll.status_code = 404) =>
           (poll'.pc = "loop" /\ ~poll'.got_result)]_vars

\* C18: a query answered with status code 404 whose body carries no final
\* status is "not ready": it does not end the loop and the next try is
\* made if tries remain; a 404 whose body carries a final status ends the
\* loop with that body as the result.
FinalStatuses == {"success", "reported_with_fails", "failed"}

C18_NotFoundWithoutFinalStatusRetries ==
    [][/\ (poll.pc = "inspect" /\ poll.status_code = 404) =>
             IF poll.json_data.status \in FinalStatuses
             THEN poll'.pc = "end" /\ poll'.got_result
             ELSE /\ poll'.pc = "loop" /\ ~poll'.got_result
                  /\ poll'.chance = poll.chance + 1
       /\ (poll.pc = "loop" /\ poll.chance < poll.max_tries) =>
             poll'.pc = "sleep"]_vars

C18_Witness ==
    /\ poll.pc = "sleep"
    /\ poll.queries >= 1
    /\ poll.chance = poll.queries
    /\ poll.worker[poll.queries] # TransportError
    /\ poll.worker[poll.queries].status_code = 404
    /\ poll.worker[poll.queries].status = "none"

\* C19: a non-null persisted finished_analysis_time implies a terminal
\* persisted status, and a finished_analysis_time that is set is never
\* reset to null by a later save.
TerminalStatuses == {"reported_without_fails", "reported_with_fails", "failed"}

C19_FinishedTimeImpliesTerminal ==
    [][/\ db'.finished_analysis_time # NoTime => db'.status \in TerminalStatuses
       /\ db.finished_analysis_time # NoTime =>
              db'.finished_analysis_time # NoTime]_vars

\* C20: a job whose status is reported_without_fails or reported_with_fails
\* has at least len(analyzers_to_execute) committed reports; while fewer
\* are committed the status is the initial one or failed.
C20_NeverClosedEarly ==
    db.status \in {"reported_without_fails", "reported_with_fails"} =>
        Len(db.analysis_reports) >= Len(analyzers_to_execute)

\* C17: an analyzer whose polling runs out of tries, or whose run() fails
\* otherwise, fails only itself: it holds no lock on the job while it
\* polls, no step of its polling changes a sibling's position or the job,
\* a sibling inside its submit can always take its next step unless another
\* submit holds the lock, the failed analyzer goes on to submit one report
\* with success = FALSE, and once all analyzers have submitted the status
\* is terminal and every sibling's report is persisted.
SubmitStep(q) ==
    \/ TxLoad(q) \/ TxAppend(q) \/ TxCheck(q) \/ Count(q)
    \/ SjsLoad(q) \/ SjsSave(q) \/ FinSave(q)

InSubmit(q) ==
    pc[q] \in {"tx_load", "tx_append", "tx_check", "count", "sjs_load",
               "sjs_save", "fin_save"}

Polling(p) == pc[p] = "run"

C17_NoLockWhilePolling ==
    Polling(FirstAnalyzer) => FirstAnalyzer \notin lock

C17_SiblingsNotBlocked ==
    \A q \in Siblings :
        (Polling(FirstAnalyzer) /\ InSubmit(q) /\ lock \subseteq {q}) =>
            ENABLED SubmitStep(q)

C17_FailedReportSubmitted ==
    /\ (Submitted(FirstAnalyzer) /\ poll.pc = "raised") =>
           /\ ~report[FirstAnalyzer].success
           /\ Len(report[FirstAnalyzer].errors) = 1
    /\ SubmitReturned(FirstAnalyzer) =>
           Cardinality({i \in DOMAIN db.analysis_reports :
                           db.analysis_reports[i].name = FirstAnalyzer}) = 1

C17_TerminalOnceAllSubmitted ==
    AllSubmitsReturned =>
        /\ db.status \in TerminalStatuses
        /\ \A q \in Siblings : \E i \in DOMAIN db.analysis_reports :
               db.analysis_reports[i] = report[q]

C17_StuckAnalyzerFailsOnlyItself ==
    /\ [](/\ C17_NoLockWhilePolling
          /\ C17_SiblingsNotBlocked
          /\ C17_FailedReportSubmitted
          /\ C17_TerminalOnceAllSubmitted)
    /\ [][/\ poll' # poll =>
               /\ UNCHANGED subVars
               /\ \A q \in Siblings : pc'[q] = pc[q]
          /\ (Polling(FirstAnalyzer) /\ ~Polling(FirstAnalyzer)') =>
               pc'[FirstAnalyzer] = "finalize"]_vars

C17_Witness ==
    /\ AllSubmitsReturned
    /\ poll.pc = "raised"
    /\ poll.raised = "AnalyzerRunException: max polls"
    /\ ~report[FirstAnalyzer].success
    /\ db.status = "reported_with_fails"

====
